---- MODULE Spec2Model ----
(***************************************************************************)
(* Model of servo/components/style_derive/to_css.rs: the derive of the     *)
(* ToCss trait.  `derive` compiles an annotated type definition into one   *)
(* match arm per variant; the generated `to_css` renders a value into a    *)
(* sink.  Text is a sequence of one-character strings.  Generated code     *)
(* (quote! tokens) is a small tree of records that `to_css` interprets.    *)
(***************************************************************************)
EXTENDS Integers, Sequences, FiniteSets, TLC

(* ------------------------------ bounds -------------------------------- *)
MaxFields == 2
MaxItems == 2
MaxVariants == 2

(* --------------------------- text helpers ----------------------------- *)
Str_a == <<"a">>
Str_b == <<"b">>
Texts == {Str_a, Str_b}

(* number of positions of `text` at which `pat` occurs *)
Occurrences(pat, text) ==
  Cardinality({i \in 1..(Len(text) - Len(pat) + 1) :
                 SubSeq(text, i, i + Len(pat) - 1) = pat})

(* --------------------------- attribute types -------------------------- *)
None == [some |-> FALSE, val |-> <<>>]
Some(x) == [some |-> TRUE, val |-> x]

(* Option<Override<String>>: absent, #[css(function)], #[css(function = "..")] *)
FnNone == [some |-> FALSE, explicit |-> FALSE, name |-> <<>>]
FnInherit == [some |-> TRUE, explicit |-> FALSE, name |-> <<>>]
FnExplicit(n) == [some |-> TRUE, explicit |-> TRUE, name |-> n]

CssInputAttrs == [function : {FnNone, FnInherit, FnExplicit(<<"f", "o", "o">>)},
                  comma : BOOLEAN]

CssVariantAttrs == [function : {FnNone, FnInherit, FnExplicit(<<"f", "o", "o">>)},
                    comma : BOOLEAN,
                    dimension : BOOLEAN,
                    keyword : {None, Some(<<"k", "w">>)}]

CssFieldAttrs == [if_empty : {None, Some(<<"n", "o", "n", "e">>)},
                  ignore_bound : BOOLEAN,
                  iterable : BOOLEAN,
                  skip : BOOLEAN]

(* ------------------- cg::to_css_identifier (collaborator) ------------- *)
IsUpper(c) == c \in {"A", "B", "C", "E", "P"}
ToLower(c) == CASE c = "A" -> "a" [] c = "B" -> "b" [] c = "C" -> "c"
                [] c = "E" -> "e" [] c = "P" -> "p" [] OTHER -> c

RECURSIVE CamelToCss(_, _)
CamelToCss(s, first) ==
  IF s = <<>> THEN <<>>
  ELSE LET c == Head(s)
       IN (IF IsUpper(c) /\ ~first THEN <<"-">> ELSE <<>>)
            \o <<ToLower(c)>> \o CamelToCss(Tail(s), FALSE)

to_css_identifier(camel_case) == CamelToCss(camel_case, TRUE)

(* ------------------------- generated tokens --------------------------- *)
(* expressions over `dest` *)
WriteStr(s) == [op |-> "write_str", text |-> s, field |-> 0, body |-> <<>>]
ToCssField(i) == [op |-> "to_css", text |-> <<>>, field |-> i, body |-> <<>>]
OkUnit == [op |-> "ok", text |-> <<>>, field |-> 0, body |-> <<>>]
SeqBlock(sep, stmts) == [op |-> "sequence", text |-> sep, field |-> 0, body |-> stmts]
(* statements over `writer`; q says whether `?` follows writer.item(..) *)
ItemStmt(i) == [op |-> "item", field |-> i, text |-> <<>>, q |-> TRUE]
ForStmt(i) == [op |-> "for", field |-> i, text |-> <<>>, q |-> TRUE]
IfEmptyStmt(i, lit) == [op |-> "if_empty", field |-> i, text |-> lit, q |-> TRUE]
(* `a?; b?; tail`: stmts are expressions, q says whether `?` follows *)
Q(e) == [e |-> e, q |-> TRUE]
Arm(stmts, tail) == [stmts |-> stmts, tail |-> tail]

(* ---------------------- cg::WhereClause (collaborator) ---------------- *)
add_trait_bound(where_clause, ty) == where_clause \cup {ty}

(* ------------------------------ derive -------------------------------- *)
(* variant: if_empty is dropped, an empty collection writes nothing *)
derive_single_field_expr_no_if_empty(field, binding, where_clause) ==
  LET attrs == binding.attrs
  IN IF attrs.iterable
     THEN [tokens |-> <<ForStmt(field)>>, where_clause |-> where_clause]
     ELSE [tokens |-> <<ItemStmt(field)>>,
           where_clause |-> IF ~attrs.ignore_bound
                            THEN add_trait_bound(where_clause, binding.ty)
                            ELSE where_clause]

(* variant: the bound is added for an iterable field's container too *)
derive_single_field_expr_bound_iterable(field, binding, where_clause) ==
  LET attrs == binding.attrs
      bounded == IF ~attrs.ignore_bound
                 THEN add_trait_bound(where_clause, binding.ty)
                 ELSE where_clause
  IN IF attrs.iterable
     THEN IF attrs.if_empty.some
          THEN [tokens |-> <<IfEmptyStmt(field, attrs.if_empty.val)>>,
                where_clause |-> bounded]
          ELSE [tokens |-> <<ForStmt(field)>>, where_clause |-> bounded]
     ELSE [tokens |-> <<ItemStmt(field)>>, where_clause |-> bounded]

(* to_css.rs:147-178 *)
derive_single_field_expr(field, binding, where_clause) ==
  LET attrs == binding.attrs
  IN IF attrs.iterable
     THEN IF attrs.if_empty.some
          THEN [tokens |-> <<IfEmptyStmt(field, attrs.if_empty.val)>>,
                where_clause |-> where_clause]
          ELSE [tokens |-> <<ForStmt(field)>>, where_clause |-> where_clause]
     ELSE [tokens |-> <<ItemStmt(field)>>,
           where_clause |-> IF ~attrs.ignore_bound
                            THEN add_trait_bound(where_clause, binding.ty)
                            ELSE where_clause]

(* to_css.rs:116-122: indices of the bindings the filter_map keeps *)
RECURSIVE FilterFrom(_, _)
FilterFrom(bindings, i) ==
  IF i > Len(bindings) THEN <<>>
  ELSE (IF bindings[i].attrs.skip THEN <<>> ELSE <<i>>) \o FilterFrom(bindings, i + 1)

active_bindings(bindings) == FilterFrom(bindings, 1)

(* variant: each field's tokens are put before the ones collected so far *)
RECURSIVE FieldsLoop_prepend(_, _, _, _, _)
FieldsLoop_prepend(bindings, iter, k, expr, where_clause) ==
  IF k > Len(iter) THEN [tokens |-> expr, where_clause |-> where_clause]
  ELSE LET r == derive_single_field_expr(iter[k], bindings[iter[k]], where_clause)
       IN FieldsLoop_prepend(bindings, iter, k + 1, r.tokens \o expr, r.where_clause)

(* to_css.rs:135-138: first field, then the rest appended in order *)
RECURSIVE FieldsLoop(_, _, _, _, _)
FieldsLoop(bindings, iter, k, expr, where_clause) ==
  IF k > Len(iter) THEN [tokens |-> expr, where_clause |-> where_clause]
  ELSE LET r == derive_single_field_expr(iter[k], bindings[iter[k]], where_clause)
       IN FieldsLoop(bindings, iter, k + 1, expr \o r.tokens, r.where_clause)

(* to_css.rs:135-144: the SequenceWriter block over all kept fields *)
sequence_fields_expr(bindings, iter, where_clause, separator) ==
  LET r == FieldsLoop(bindings, iter, 1, <<>>, where_clause)
  IN [tokens |-> SeqBlock(separator, r.tokens), where_clause |-> r.where_clause]

(* variant: the direct render registers no bound *)
bypass_expr_no_bound(bindings, first, where_clause) ==
  [tokens |-> ToCssField(first), where_clause |-> where_clause]

(* to_css.rs:128-133: one kept field, not iterable: rendered without a writer *)
bypass_expr(bindings, first, where_clause) ==
  [tokens |-> ToCssField(first),
   where_clause |-> IF ~bindings[first].attrs.ignore_bound
                    THEN add_trait_bound(where_clause, bindings[first].ty)
                    ELSE where_clause]

(* to_css.rs:111-145 *)
derive_variant_fields_expr(bindings, where_clause, separator) ==
  LET iter == active_bindings(bindings)
  IN IF iter = <<>>
     THEN [tokens |-> OkUnit, where_clause |-> where_clause]
     ELSE IF ~bindings[iter[1]].attrs.iterable /\ Len(iter) = 1
          THEN bypass_expr(bindings, iter[1], where_clause)
          ELSE sequence_fields_expr(bindings, iter, where_clause, separator)

(* variant: the two separators exchanged *)
separator_of_exchanged(variant_attrs) ==
  IF variant_attrs.comma THEN <<" ">> ELSE <<",", " ">>

(* to_css.rs:70 *)
separator_of(variant_attrs) == IF variant_attrs.comma THEN <<",", " ">> ELSE <<" ">>

(* variant: `||` for `&&` in the second assertion *)
dimension_checks_or(variant) ==
  variant.attrs.dimension =>
    /\ Len(variant.bindings) = 1
    /\ ~variant.attrs.function.some \/ ~variant.attrs.keyword.some

(* to_css.rs:72-78: FALSE when one of the assertions panics *)
dimension_checks(variant) ==
  variant.attrs.dimension =>
    /\ Len(variant.bindings) = 1
    /\ ~variant.attrs.function.some /\ ~variant.attrs.keyword.some

(* variant: a variant without bindings goes through the fields path too *)
base_expr_fields_always(variant, identifier, where_clause, separator) ==
  IF variant.attrs.keyword.some
  THEN [ok |-> variant.bindings = <<>>,
        tokens |-> WriteStr(variant.attrs.keyword.val),
        where_clause |-> where_clause]
  ELSE LET r == derive_variant_fields_expr(variant.bindings, where_clause, separator)
       IN [ok |-> TRUE, tokens |-> r.tokens, where_clause |-> r.where_clause]

(* variant: the keyword branch writes the identifier *)
base_expr_keyword_identifier(variant, identifier, where_clause, separator) ==
  IF variant.attrs.keyword.some
  THEN [ok |-> variant.bindings = <<>>,
        tokens |-> WriteStr(identifier),
        where_clause |-> where_clause]
  ELSE IF variant.bindings # <<>>
       THEN LET r == derive_variant_fields_expr(variant.bindings, where_clause, separator)
            IN [ok |-> TRUE, tokens |-> r.tokens, where_clause |-> r.where_clause]
       ELSE [ok |-> TRUE, tokens |-> WriteStr(identifier), where_clause |-> where_clause]

(* to_css.rs:80-92: ok is FALSE when assert!(bindings.is_empty()) panics *)
base_expr(variant, identifier, where_clause, separator) ==
  IF variant.attrs.keyword.some
  THEN [ok |-> variant.bindings = <<>>,
        tokens |-> WriteStr(variant.attrs.keyword.val),
        where_clause |-> where_clause]
  ELSE IF variant.bindings # <<>>
       THEN LET r == derive_variant_fields_expr(variant.bindings, where_clause, separator)
            IN [ok |-> TRUE, tokens |-> r.tokens, where_clause |-> r.where_clause]
       ELSE [ok |-> TRUE, tokens |-> WriteStr(identifier), where_clause |-> where_clause]

(* variant: the override name of the function directive is not used *)
wrap_expr_no_override(variant_attrs, identifier, expr) ==
  IF variant_attrs.dimension
  THEN Arm(<<Q(expr)>>, WriteStr(identifier))
  ELSE IF variant_attrs.function.some
       THEN Arm(<<Q(WriteStr(identifier \o <<"(">>)), Q(expr)>>, WriteStr(<<")">>))
       ELSE Arm(<<>>, expr)

(* variant: no `?` after the wrapped expression *)
wrap_expr_no_try(variant_attrs, identifier, expr) ==
  IF variant_attrs.dimension
  THEN Arm(<<[e |-> expr, q |-> FALSE]>>, WriteStr(identifier))
  ELSE IF variant_attrs.function.some
       THEN LET name == IF variant_attrs.function.explicit
                        THEN variant_attrs.function.name ELSE identifier
            IN Arm(<<Q(WriteStr(name \o <<"(">>)), [e |-> expr, q |-> FALSE]>>,
                   WriteStr(<<")">>))
       ELSE Arm(<<>>, expr)

(* to_css.rs:94-108 *)
wrap_expr(variant_attrs, identifier, expr) ==
  IF variant_attrs.dimension
  THEN Arm(<<Q(expr)>>, WriteStr(identifier))
  ELSE IF variant_attrs.function.some
       THEN LET name == IF variant_attrs.function.explicit
                        THEN variant_attrs.function.name ELSE identifier
            IN Arm(<<Q(WriteStr(name \o <<"(">>)), Q(expr)>>, WriteStr(<<")">>))
       ELSE Arm(<<>>, expr)

(* to_css.rs:62-109 *)
derive_variant_arm(variant, where_clause) ==
  LET identifier == to_css_identifier(variant.ident)
      separator == separator_of(variant.attrs)
      base == base_expr(variant, identifier, where_clause, separator)
  IN IF ~dimension_checks(variant) \/ ~base.ok
     THEN [ok |-> FALSE, tokens |-> Arm(<<>>, OkUnit), where_clause |-> where_clause]
     ELSE [ok |-> TRUE,
           tokens |-> wrap_expr(variant.attrs, identifier, base.tokens),
           where_clause |-> base.where_clause]

(* to_css.rs:17-21: FALSE when one of the enum assertions panics *)
enum_checks(input) ==
  input.is_enum => ~input.attrs.function.some /\ ~input.attrs.comma

(* ------------------ the sink and the sequence writer ------------------ *)
(* A sink that fails its fail_at-th write (0: never).  A failed write      *)
(* leaves the text alone; every write attempt is logged.                   *)
NewSink(fail_at) == [out |-> <<>>, log |-> <<>>, fail_at |-> fail_at]

SinkWritten(sink, kind, field, text, ok) ==
  [sink |-> [sink EXCEPT !.out = IF ok THEN @ \o text ELSE @,
                         !.log = Append(@, [kind |-> kind, field |-> field,
                                            text |-> text, ok |-> ok])],
   ok |-> ok]

sink_write(sink, kind, field, text) ==
  SinkWritten(sink, kind, field, text, Len(sink.log) + 1 # sink.fail_at)

(* style_traits::values::SequenceWriter::item: the separator before every  *)
(* item except the first, then the item's own render                       *)
ItemWritten(writer, w) ==
  [writer |-> [writer EXCEPT !.sink = w.sink, !.first = FALSE], ok |-> w.ok]

SeparatorWritten(writer, field, text, s) ==
  IF ~s.ok THEN [writer |-> [writer EXCEPT !.sink = s.sink], ok |-> FALSE]
  ELSE ItemWritten(writer, sink_write(s.sink, "item", field, text))

writer_item(writer, field, text) ==
  IF writer.first
  THEN ItemWritten(writer, sink_write(writer.sink, "item", field, text))
  ELSE SeparatorWritten(writer, field, text,
                        sink_write(writer.sink, "sep", 0, writer.separator))

(* ---------------------- the generated to_css -------------------------- *)
(* `?` returns from to_css itself: ret is TRUE once that has happened.     *)
(* for item in iter { writer.item(&item)?; } *)
RECURSIVE ExecItems(_, _, _, _)
ItemDone(items, field, q, r) ==
  IF ~r.ok /\ q THEN [writer |-> r.writer, ret |-> TRUE]
  ELSE ExecItems(Tail(items), r.writer, field, q)

ExecItems(items, writer, field, q) ==
  IF items = <<>> THEN [writer |-> writer, ret |-> FALSE]
  ELSE ItemDone(items, field, q, writer_item(writer, field, Head(items)))

(* to_css.rs:154-177: the items one field's statement passes to the writer *)
StmtItems(stmt, fields) ==
  CASE stmt.op = "item" -> <<fields[stmt.field]>>
    [] stmt.op = "for" -> fields[stmt.field]
    [] stmt.op = "if_empty" ->
         IF fields[stmt.field] = <<>> THEN <<stmt.text>> ELSE fields[stmt.field]

ExecStmt(stmt, writer, fields) ==
  ExecItems(StmtItems(stmt, fields), writer, stmt.field, stmt.q)

RECURSIVE ExecStmts(_, _, _)
StmtDone(stmts, fields, r) ==
  IF r.ret THEN r ELSE ExecStmts(Tail(stmts), r.writer, fields)

ExecStmts(stmts, writer, fields) ==
  IF stmts = <<>> THEN [writer |-> writer, ret |-> FALSE]
  ELSE StmtDone(stmts, fields, ExecStmt(Head(stmts), writer, fields))

(* to_css.rs:140-144: { let mut writer = ..; stmts  Ok(()) } *)
BlockDone(r) == [sink |-> r.writer.sink, ok |-> ~r.ret, ret |-> r.ret]

(* to_css.rs:84,90,132: one write of a literal or of a field's value *)
WriteDone(w) == [sink |-> w.sink, ok |-> w.ok, ret |-> FALSE]

(* to_css.rs:84,90,126,132,140-144: a base expression *)
ExecExpr(expr, sink, fields) ==
  CASE expr.op \in {"write_str", "to_css"} ->
         WriteDone(sink_write(sink,
                              IF expr.op = "to_css" THEN "item" ELSE "lit",
                              expr.field,
                              IF expr.op = "to_css" THEN fields[expr.field]
                              ELSE expr.text))
    [] expr.op = "ok" -> [sink |-> sink, ok |-> TRUE, ret |-> FALSE]
    [] expr.op = "sequence" ->
         BlockDone(ExecStmts(expr.body,
                             [sink |-> sink, separator |-> expr.text, first |-> TRUE],
                             fields))

(* to_css.rs:95-98,102-106: `a?; b?; tail` *)
RECURSIVE ExecArm(_, _, _, _)
ExprDone(stmts, tail, fields, r) ==
  IF stmts = <<>> THEN [sink |-> r.sink, ok |-> r.ok]
  ELSE IF r.ret \/ (~r.ok /\ Head(stmts).q)
       THEN [sink |-> r.sink, ok |-> FALSE]
       ELSE ExecArm(Tail(stmts), tail, r.sink, fields)

ExecArm(stmts, tail, sink, fields) ==
  ExprDone(stmts, tail, fields,
           ExecExpr(IF stmts = <<>> THEN tail ELSE Head(stmts).e, sink, fields))

(* to_css.rs:32-42: match *self { arms } *)
to_css(arms, self, sink) ==
  ExecArm(arms[self.variant].stmts, arms[self.variant].tail, sink, self.fields)

(* ------------------------------ inputs -------------------------------- *)
Types == {"T", "U"}

(* variant names, by position in the type definition *)
VariantIdents == << <<"P", "x">>, <<"A", "b", "C">>, <<"E", "m">>, <<"B", "a">> >>

KindDirect == [if_empty |-> None, ignore_bound |-> FALSE, iterable |-> FALSE, skip |-> FALSE]
KindIgnoreBound == [if_empty |-> None, ignore_bound |-> TRUE, iterable |-> FALSE, skip |-> FALSE]
KindIterable == [if_empty |-> None, ignore_bound |-> FALSE, iterable |-> TRUE, skip |-> FALSE]
KindIfEmpty == [if_empty |-> Some(<<"n", "o", "n", "e">>), ignore_bound |-> FALSE,
                iterable |-> TRUE, skip |-> FALSE]
KindSkip == [if_empty |-> None, ignore_bound |-> FALSE, iterable |-> FALSE, skip |-> TRUE]

FieldKinds == {KindDirect, KindIgnoreBound, KindIterable, KindIfEmpty, KindSkip}

(* the fields of a struct: every kind over T, and a plain field of type U *)
StructBindings == [ty : {"T"}, attrs : FieldKinds] \cup {[ty |-> "U", attrs |-> KindDirect]}

BindingLists(n) == UNION {[1..k -> StructBindings] : k \in 0..n}

(* a struct: one variant, whose attributes are the type's own, so only   *)
(* the directives both attribute sets declare (to_css.rs:184-187)          *)
StructInputs ==
  {[is_enum |-> FALSE,
    attrs |-> [function |-> a.function, comma |-> a.comma],
    variants |-> <<[ident |-> VariantIdents[1], attrs |-> a, bindings |-> b]>>] :
     a \in {x \in CssVariantAttrs : ~x.dimension /\ ~x.keyword.some},
     b \in BindingLists(MaxFields)}

NoInputAttrs == [function |-> FnNone, comma |-> FALSE]

(* an enum of one variant, with any directives and fields *)
OneVariantEnumInputs ==
  {[is_enum |-> TRUE,
    attrs |-> NoInputAttrs,
    variants |-> <<[ident |-> VariantIdents[1], attrs |-> a, bindings |-> b]>>] :
     a \in CssVariantAttrs, b \in BindingLists(MaxFields)}

(* enums of unit and one-field variants, each plain, dimension or keyword *)
EnumVariantAttrs ==
  {a \in CssVariantAttrs :
     ~a.comma /\ ~a.function.some /\ ~(a.dimension /\ a.keyword.some)}

EnumBindingLists ==
  {<<>>} \cup {<<b>> : b \in [ty : Types, attrs : {KindDirect, KindIgnoreBound, KindIfEmpty}]}

EnumVariantLists ==
  UNION {{[i \in 1..k |-> [ident |-> VariantIdents[i], attrs |-> f[i].attrs,
                           bindings |-> f[i].bindings]] :
            f \in [1..k -> [attrs : EnumVariantAttrs, bindings : EnumBindingLists]]} :
         k \in 1..MaxVariants}

(* enums of unit variants under a type-level function or comma *)
UnitVariantLists ==
  {[i \in 1..k |-> [ident |-> VariantIdents[i],
                    attrs |-> [function |-> FnNone, comma |-> FALSE,
                               dimension |-> FALSE, keyword |-> None],
                    bindings |-> <<>>]] : k \in 1..MaxVariants}

EnumInputs ==
  {[is_enum |-> TRUE, attrs |-> NoInputAttrs, variants |-> vs] : vs \in EnumVariantLists}
    \cup {[is_enum |-> TRUE, attrs |-> a, variants |-> vs] :
            a \in CssInputAttrs \ {NoInputAttrs}, vs \in UnitVariantLists}
    \cup OneVariantEnumInputs

Inputs == StructInputs \cup EnumInputs

(* the values of a type: a variant and a value for each of its bindings;   *)
(* a collection holds the first n of a, b, a, ...; a skipped binding is    *)
(* never read and gets one value                                           *)
ItemAt(j) == IF j % 2 = 1 THEN Str_a ELSE Str_b
Collections == {[j \in 1..n |-> ItemAt(j)] : n \in 0..MaxItems}

ValuesOf(binding) ==
  IF binding.attrs.skip THEN {IF binding.attrs.iterable THEN <<>> ELSE Str_a}
  ELSE IF binding.attrs.iterable THEN Collections ELSE Texts

RECURSIVE FieldValues(_)
FieldValues(bindings) ==
  IF bindings = <<>> THEN {<<>>}
  ELSE {<<v>> \o rest : v \in ValuesOf(Head(bindings)),
                        rest \in FieldValues(Tail(bindings))}

SelfValues(input) ==
  UNION {{[variant |-> k, fields |-> fs] :
            fs \in FieldValues(input.variants[k].bindings)} :
         k \in 1..Len(input.variants)}

(* --------------------------- state machine ---------------------------- *)
VARIABLES input, pc, match_body, where_clause, impls, render

vars == <<input, pc, match_body, where_clause, impls, render>>

NoImpls == [emitted |-> FALSE, arms |-> <<>>, bounds |-> {}]
NoRender == [called |-> FALSE, self |-> [variant |-> 0, fields |-> <<>>],
             sink |-> NewSink(0), ok |-> TRUE]

Init ==
  /\ input \in Inputs
  /\ pc = "start"
  /\ match_body = <<>>
  /\ where_clause = {}
  /\ impls = NoImpls
  /\ render = NoRender

(* to_css.rs:12-22: parse the type's attributes, check them *)
DeriveBegin ==
  /\ pc = "start"
  /\ pc' = IF enum_checks(input) THEN "variants" ELSE "panicked"
  /\ UNCHANGED <<input, match_body, where_clause, impls, render>>

(* to_css.rs:24-26: the each_variant closure on the next variant *)
DeriveVariant ==
  /\ pc = "variants"
  /\ Len(match_body) < Len(input.variants)
  /\ LET r == derive_variant_arm(input.variants[Len(match_body) + 1], where_clause)
     IN IF r.ok
        THEN /\ match_body' = Append(match_body, r.tokens)
             /\ where_clause' = r.where_clause
             /\ pc' = pc
        ELSE /\ pc' = "panicked"
             /\ UNCHANGED <<match_body, where_clause>>
  /\ UNCHANGED <<input, impls, render>>

(* to_css.rs:28-59: the impl, with the where clause collected so far *)
DeriveEnd ==
  /\ pc = "variants"
  /\ Len(match_body) = Len(input.variants)
  /\ impls' = [emitted |-> TRUE, arms |-> match_body, bounds |-> where_clause]
  /\ pc' = "done"
  /\ UNCHANGED <<input, match_body, where_clause, render>>

(* no render writes more often: each item and a separator before it, and *)
(* the two writes of a function wrapper                                    *)
MaxWrites == 2 * MaxFields * (MaxItems + 1) + 2

(* to_css.rs:32-42: one call of the generated to_css, on a sink whose      *)
(* fail_at-th write fails, for every write the call comes to               *)
Returned(self, fail_at, r) ==
  /\ fail_at <= Len(r.sink.log)
  /\ render' = [called |-> TRUE, self |-> self, sink |-> r.sink, ok |-> r.ok]

ToCss ==
  /\ impls.emitted
  /\ ~render.called
  /\ \E self \in SelfValues(input) :
       \E fail_at \in 0..MaxWrites :
         Returned(self, fail_at, to_css(impls.arms, self, NewSink(fail_at)))
  /\ UNCHANGED <<input, pc, match_body, where_clause, impls>>

Next == DeriveBegin \/ DeriveVariant \/ DeriveEnd \/ ToCss

Spec == Init /\ [][Next]_vars

(* ============================ properties ============================== *)
(* the variant of the rendered value, its identifier and its kept fields *)
RVariant == input.variants[render.self.variant]
RIdent == to_css_identifier(RVariant.ident)
RActive == active_bindings(RVariant.bindings)
RArm == impls.arms[render.self.variant]
Unwrapped(variant) == ~variant.attrs.function.some /\ ~variant.attrs.dimension
(* a finished render no write of which failed *)
Rendered == render.called /\ render.sink.fail_at = 0
(* the base fragment of an arm: the expression the wrappers are put around *)
BaseTokens(arm) == IF arm.stmts = <<>> THEN arm.tail ELSE arm.stmts[Len(arm.stmts)].e
(* the output of the rendered value under other tokens, no write failing *)
OutputOf(arm) == ExecArm(arm.stmts, arm.tail, NewSink(0), render.self.fields).sink.out

(* C1 as stated: a variant without keyword whose kept fields are empty    *)
(* renders, unwrapped, as exactly one write of its canonical identifier.   *)
C1_AsStated ==
  (Rendered /\ ~RVariant.attrs.keyword.some /\ RActive = <<>> /\ Unwrapped(RVariant))
    => /\ render.sink.out = RIdent
       /\ Len(render.sink.log) = 1

(* C1 amended: a variant without keyword and without any binding has the  *)
(* single write of its canonical identifier as base fragment and renders,  *)
(* unwrapped, as exactly that text; a variant that has bindings, all of    *)
(* them skipped, has Ok(()) as base fragment and writes nothing.           *)
C1_Amended ==
  /\ \A k \in 1..Len(match_body) :
       LET v == input.variants[k]
       IN (~v.attrs.keyword.some /\ active_bindings(v.bindings) = <<>>)
            => BaseTokens(match_body[k]) =
                 IF v.bindings = <<>> THEN WriteStr(to_css_identifier(v.ident))
                 ELSE OkUnit
  /\ (Rendered /\ ~RVariant.attrs.keyword.some /\ RActive = <<>> /\ Unwrapped(RVariant))
       => IF RVariant.bindings = <<>>
          THEN /\ render.sink.out = RIdent
               /\ Len(render.sink.log) = 1
          ELSE /\ render.sink.out = <<>>
               /\ render.sink.log = <<>>

C1_Witness ==
  /\ Rendered /\ ~RVariant.attrs.keyword.some /\ Unwrapped(RVariant)
  /\ RVariant.bindings = <<>>
  /\ render.sink.out = RIdent

(* the name a function directive resolves to; the variant without it *)
ResolvedName(variant) ==
  IF variant.attrs.function.explicit THEN variant.attrs.function.name
  ELSE to_css_identifier(variant.ident)

WithoutFunction(variant) == [variant EXCEPT !.attrs.function = FnNone]

(* C2: with function set and dimension not, and no write failing, the     *)
(* output is the override name if given, else the canonical identifier,    *)
(* then "(", then what the variant renders without the function            *)
(* directive, then ")".                                                    *)
C2_FunctionWrap ==
  (Rendered /\ RVariant.attrs.function.some /\ ~RVariant.attrs.dimension)
    => /\ render.ok
       /\ render.sink.out =
            ResolvedName(RVariant) \o <<"(">>
              \o OutputOf(derive_variant_arm(WithoutFunction(RVariant), {}).tokens)
              \o <<")">>

C2_Witness ==
  /\ Rendered /\ RVariant.attrs.function.explicit /\ Len(RActive) = 2
  /\ render.sink.out = <<"f", "o", "o", "(", "a", ",", " ", "b", ")">>

(* C3: once a sink write fails, the render performs no further write and   *)
(* returns the failure: a failed write is the last write of the call, and  *)
(* the call returns Ok exactly when no write failed.                       *)
C3_FailureStops ==
  render.called =>
    /\ \A i \in 1..Len(render.sink.log) :
         ~render.sink.log[i].ok => i = Len(render.sink.log)
    /\ render.ok = (\A i \in 1..Len(render.sink.log) : render.sink.log[i].ok)

(* an inner item write of a function variant failed: no ")" follows *)
C3_Witness ==
  /\ render.called /\ ~render.ok
  /\ RVariant.attrs.function.some
  /\ Len(render.sink.log) >= 2
  /\ render.sink.log[Len(render.sink.log)].kind = "item"
  /\ ~render.sink.log[Len(render.sink.log)].ok

(* the items a variant writes for a value: one per direct kept field, one  *)
(* per element of an iterable one, the if_empty literal for an empty one   *)
ItemsOfField(binding, value) ==
  IF ~binding.attrs.iterable THEN <<value>>
  ELSE IF value = <<>> /\ binding.attrs.if_empty.some
       THEN <<binding.attrs.if_empty.val>>
       ELSE value

RECURSIVE ItemsFrom(_, _, _)
ItemsFrom(bindings, fields, i) ==
  IF i > Len(bindings) THEN <<>>
  ELSE (IF bindings[i].attrs.skip THEN <<>> ELSE ItemsOfField(bindings[i], fields[i]))
         \o ItemsFrom(bindings, fields, i + 1)

RItems == ItemsFrom(RVariant.bindings, render.self.fields, 1)

RECURSIVE Join(_, _)
Join(items, sep) ==
  IF items = <<>> THEN <<>>
  ELSE IF Len(items) = 1 THEN Head(items)
       ELSE Head(items) \o sep \o Join(Tail(items), sep)

CommaSep == <<",", " ">>

(* C4 as stated: with comma and n >= 2 kept fields the output holds        *)
(* exactly n-1 occurrences of ", ".                                        *)
C4_AsStated ==
  (Rendered /\ RVariant.attrs.comma /\ Len(RActive) >= 2)
    => Occurrences(CommaSep, render.sink.out) = Len(RActive) - 1

(* C4 amended: with comma and n >= 2 kept fields the output holds exactly  *)
(* k-1 occurrences of ", ", where k is the number of items written (one    *)
(* per direct field, one per element of an iterable field, one for the     *)
(* if_empty literal of an empty one) and none when k = 0; they stand       *)
(* between consecutive items, never before the first or after the last.    *)
(* When no kept field is iterable, k = n.                                  *)
C4_Amended ==
  (Rendered /\ RVariant.attrs.comma /\ Len(RActive) >= 2)
    => /\ Occurrences(CommaSep, render.sink.out) =
            IF RItems = <<>> THEN 0 ELSE Len(RItems) - 1
       /\ OutputOf(Arm(<<>>, BaseTokens(RArm))) = Join(RItems, CommaSep)
       /\ (\A i \in 1..Len(RActive) : ~RVariant.bindings[RActive[i]].attrs.iterable)
            => Len(RItems) = Len(RActive)

C4_Witness ==
  /\ Rendered /\ RVariant.attrs.comma /\ Len(RActive) = 2
  /\ Len(RItems) = 3
  /\ Occurrences(CommaSep, render.sink.out) = 2

(* C5: a variant whose only kept field is iterable with if_empty a         *)
(* literal renders an empty collection as that literal, written verbatim   *)
(* as the single item: no separator, no other item, for either comma.      *)
C5_IfEmpty ==
  (/\ Rendered /\ Len(RActive) = 1
   /\ RVariant.bindings[RActive[1]].attrs.iterable
   /\ RVariant.bindings[RActive[1]].attrs.if_empty.some
   /\ render.self.fields[RActive[1]] = <<>>)
    => LET lit == RVariant.bindings[RActive[1]].attrs.if_empty.val
       IN /\ OutputOf(Arm(<<>>, BaseTokens(RArm))) = lit
          /\ SelectSeq(render.sink.log, LAMBDA w : w.kind # "lit") =
               <<[kind |-> "item", field |-> RActive[1], text |-> lit, ok |-> TRUE]>>
          /\ Unwrapped(RVariant) => render.sink.out = lit

C5_Witness ==
  /\ Rendered /\ Len(RActive) = 1 /\ RVariant.attrs.comma
  /\ RVariant.bindings[RActive[1]].attrs.if_empty.some
  /\ render.self.fields[RActive[1]] = <<>>
  /\ render.sink.out = <<"n", "o", "n", "e">>

(* the directive combinations generation must reject *)
IllegalEnum(inp) == inp.is_enum /\ (inp.attrs.function.some \/ inp.attrs.comma)

IllegalVariant(v) ==
  v.attrs.dimension
    /\ (v.attrs.function.some \/ v.attrs.keyword.some \/ Len(v.bindings) # 1)

(* C6: a type-level function or comma on an enum, dimension together with  *)
(* function or keyword, or dimension on a variant whose raw binding count  *)
(* is not one, makes generation fail: no arm is produced for such a        *)
(* variant, no impl is emitted, and nothing is left to fail at render time.*)
C6_GenerationRejects ==
  /\ IllegalEnum(input) => pc \in {"start", "panicked"} /\ match_body = <<>>
  /\ \A k \in 1..Len(match_body) : ~IllegalVariant(input.variants[k])
  /\ (IllegalEnum(input) \/ \E k \in 1..Len(input.variants) :
                               IllegalVariant(input.variants[k]))
       => pc # "done" /\ ~impls.emitted /\ ~render.called

(* the second variant of an enum is rejected after the first was accepted *)
C6_Witness ==
  /\ pc = "panicked" /\ Len(match_body) = 1
  /\ input.variants[2].attrs.dimension /\ Len(input.variants[2].bindings) = 0

DirectField(b) == ~b.attrs.skip /\ ~b.attrs.iterable /\ ~b.attrs.ignore_bound

DirectTypes(variants, n) ==
  UNION {{variants[k].bindings[i].ty :
            i \in {j \in 1..Len(variants[k].bindings) :
                     DirectField(variants[k].bindings[j])}} :
         k \in 1..n}

(* C7 as stated: after a successful generation the bound set contains a    *)
(* field's declared type if and only if that field is rendered directly.   *)
C7_AsStated ==
  pc = "done" =>
    \A k \in 1..Len(input.variants) :
      \A i \in 1..Len(input.variants[k].bindings) :
        LET b == input.variants[k].bindings[i]
        IN (b.ty \in impls.bounds) <=> DirectField(b)

(* C7 amended: the bound set is exactly the set of the declared types of   *)
(* the fields rendered directly (not skip, not iterable, not ignore_bound),*)
(* after every variant processed and in the emitted impl: a type is in it  *)
(* if and only if some field declaring it is rendered directly.  A skip,   *)
(* iterable or ignore_bound field adds nothing, on either path (its type   *)
(* can still be there because of another field), and a type added twice is *)
(* there once.                                                             *)
C7_Amended ==
  /\ pc \in {"variants", "done"}
       => where_clause = DirectTypes(input.variants, Len(match_body))
  /\ impls.emitted => impls.bounds = DirectTypes(input.variants, Len(input.variants))

(* T is declared by two directly rendered fields and by an exempted one *)
C7_Witness ==
  /\ pc = "done" /\ impls.bounds = {"T"}
  /\ Len(input.variants) = 1 /\ Len(input.variants[1].bindings) = 2
  /\ DirectField(input.variants[1].bindings[1])
  /\ input.variants[1].bindings[2].ty = "T"
  /\ input.variants[1].bindings[2].attrs.ignore_bound

(* C8 as stated: a variant with keyword k always renders as exactly k.     *)
C8_AsStated ==
  (Rendered /\ RVariant.attrs.keyword.some)
    => render.sink.out = RVariant.attrs.keyword.val

(* C8 amended: a variant with keyword k has the single write of k as its   *)
(* base fragment, with no sequence writer; it renders as exactly k when it *)
(* has no function directive, and as the resolved function name, "(", k,   *)
(* ")" when it has one.                                                    *)
C8_Amended ==
  (Rendered /\ RVariant.attrs.keyword.some)
    => LET k == RVariant.attrs.keyword.val
       IN /\ BaseTokens(RArm) = WriteStr(k)
          /\ \A i \in 1..Len(render.sink.log) : render.sink.log[i].kind = "lit"
          /\ ~RVariant.attrs.function.some
               => /\ render.sink.out = k
                  /\ Len(render.sink.log) = 1
          /\ RVariant.attrs.function.some
               => render.sink.out = ResolvedName(RVariant) \o <<"(">> \o k \o <<")">>

C8_Witness ==
  /\ Rendered /\ RVariant.attrs.keyword.some /\ ~RVariant.attrs.function.some
  /\ render.sink.out = <<"k", "w">>

(* the item writes of a log for one binding, as texts, and their bindings *)
ItemWrites(log) == SelectSeq(log, LAMBDA w : w.kind = "item")
GroupOf(log, f) ==
  LET g == SelectSeq(log, LAMBDA w : w.kind = "item" /\ w.field = f)
  IN [k \in 1..Len(g) |-> g[k].text]
OtherWrites(log) == SelectSeq(log, LAMBDA w : w.kind # "item")
InDeclarationOrder(log) ==
  \A i, j \in 1..Len(ItemWrites(log)) :
    i < j => ItemWrites(log)[i].field <= ItemWrites(log)[j].field

Swap(seq, i, j) ==
  [k \in 1..Len(seq) |-> IF k = i THEN seq[j] ELSE IF k = j THEN seq[i] ELSE seq[k]]

(* the render of the value with bindings i and j exchanged in the schema *)
SwappedRender(i, j) ==
  LET v2 == [RVariant EXCEPT !.bindings = Swap(RVariant.bindings, i, j)]
      arm == derive_variant_arm(v2, {}).tokens
  IN ExecArm(arm.stmts, arm.tail, NewSink(0), Swap(render.self.fields, i, j))

(* C9: the kept fields of a variant are written in declaration order, all  *)
(* writes of a field before all writes of a later one, also in a render    *)
(* that fails; the base output is the items of the fields in that order,   *)
(* joined by the separator.  Exchanging two kept fields in the schema      *)
(* exchanges their writes and changes no other write.                      *)
C9_DeclarationOrder ==
  /\ render.called => InDeclarationOrder(render.sink.log)
  /\ (Rendered /\ RActive # <<>>)
       => OutputOf(Arm(<<>>, BaseTokens(RArm))) = Join(RItems, separator_of(RVariant.attrs))
  /\ Rendered =>
       \A i, j \in {RActive[k] : k \in 1..Len(RActive)} :
         i < j =>
           LET r2 == SwappedRender(i, j)
           IN /\ r2.ok
              /\ InDeclarationOrder(r2.sink.log)
              /\ GroupOf(r2.sink.log, i) = GroupOf(render.sink.log, j)
              /\ GroupOf(r2.sink.log, j) = GroupOf(render.sink.log, i)
              /\ \A f \in 1..Len(RVariant.bindings) :
                   f \notin {i, j} => GroupOf(r2.sink.log, f) = GroupOf(render.sink.log, f)
              /\ OtherWrites(r2.sink.log) = OtherWrites(render.sink.log)

(* two kept fields with different outputs, the first one iterable *)
C9_Witness ==
  /\ Rendered /\ Len(RActive) = 2
  /\ RVariant.bindings[RActive[1]].attrs.iterable
  /\ GroupOf(render.sink.log, RActive[1]) = <<Str_a, Str_b>>
  /\ GroupOf(render.sink.log, RActive[2]) = <<Str_a>>

(* the arm the sequence-writer path gives for the rendered variant *)
GeneralArm ==
  wrap_expr(RVariant.attrs, RIdent,
            sequence_fields_expr(RVariant.bindings, RActive, {},
                                 separator_of(RVariant.attrs)).tokens)

(* C10: for a variant with exactly one kept field, not iterable, the       *)
(* direct render and the sequence-writer path over that one field do the   *)
(* same writes, leave the same text and return the same result, for every  *)
(* value, every failing write and either comma, write no separator, and    *)
(* register the same bound.                                                *)
C10_BypassEquivalent ==
  (render.called /\ Len(RActive) = 1 /\ ~RVariant.bindings[RActive[1]].attrs.iterable)
    => LET g == ExecArm(GeneralArm.stmts, GeneralArm.tail,
                        NewSink(render.sink.fail_at), render.self.fields)
       IN /\ BaseTokens(RArm) = ToCssField(RActive[1])
          /\ g.sink = render.sink
          /\ g.ok = render.ok
          /\ \A i \in 1..Len(g.sink.log) : g.sink.log[i].kind # "sep"
          /\ \A wc \in SUBSET Types :
               bypass_expr(RVariant.bindings, RActive[1], wc).where_clause =
                 sequence_fields_expr(RVariant.bindings, RActive, wc,
                                      separator_of(RVariant.attrs)).where_clause

(* the single field's write fails inside a comma function variant *)
C10_Witness ==
  /\ render.called /\ ~render.ok
  /\ Len(RActive) = 1 /\ ~RVariant.bindings[RActive[1]].attrs.iterable
  /\ RVariant.attrs.comma /\ RVariant.attrs.function.some
  /\ render.sink.fail_at = 2

====
